---------------------------- MODULE Spec2Model ----------------------------
(***************************************************************************)
(* Quadrotor3D (gym_reinmav/envs/native/quadrotor3d.py): the environment's *)
(* state, reset(), step(), control() and ros_render(), and the loop of     *)
(* test/test_quadrotor3d_ros.py.                                           *)
(*                                                                         *)
(* The program computes in float64.  The model computes in fixed point:    *)
(* every quantity is an integer number of units, and a division rounds to  *)
(* the nearest unit, symmetrically in the sign (as IEEE rounding is).      *)
(*   position  1/PosScale m        velocity  1/VelScale m/s                *)
(*   thrust, acceleration  1/AccScale m/s^2                                *)
(*   quaternion and unit-vector components  1/QScale                       *)
(*   angular velocity  1/RateScale rad/s    reward  1/PosScale             *)
(***************************************************************************)
EXTENDS Integers, Sequences, FiniteSets, TLC

VARIABLES state, steps_beyond_done, ret, act, msg, prev, terminated_seen,
          first_done, pc, calls

(* state              self.state: [pos, att, vel]                          *)
(* steps_beyond_done  self.steps_beyond_done, None or a count              *)
(* ret                what the last step() returned (kind "none" after a   *)
(*                    reset()), with the action it was given               *)
(* act                what the caller's last control() returned or raised, *)
(*                    or the action of its policy                          *)
(* msg                the pose ros_render() has published last             *)
(* pc, calls          where the caller is, and its calls or iterations     *)
(* History, not read by the program:                                       *)
(* prev               self.state before the last step()                    *)
(* terminated_seen    a step() of this episode has returned done = True    *)
(* first_done         the last step() was the first of them                *)
vars == <<state, steps_beyond_done, ret, act, msg, prev, terminated_seen,
          first_done, pc, calls>>

---------------------------------------------------------------------------
(* Fixed-point resolution of the float64 quantities. *)
PosScale == 1000
VelScale == 1000
AccScale == 10
QScale == 1000
RateScale == 100

(* Bounds of the model. *)
MaxCalls == 4
MaxIter == 6
HoverSteps == 100

---------------------------------------------------------------------------
(* Arithmetic *)

Abs(a) == IF a < 0 THEN -a ELSE a

(* np.sign *)
Sign(a) == IF a > 0 THEN 1 ELSE IF a < 0 THEN -1 ELSE 0

(* a / b for b > 0, rounded to the nearest unit, half away from zero *)
RoundDiv(a, b) ==
    IF a >= 0 THEN (2 * a + b) \div (2 * b) ELSE -((2 * (-a) + b) \div (2 * b))

RECURSIVE SqrtIter(_, _, _)
SqrtIter(n, lo, hi) ==
    IF lo >= hi THEN lo
    ELSE LET mid == (lo + hi + 1) \div 2
         IN  IF mid * mid <= n THEN SqrtIter(n, mid, hi)
             ELSE SqrtIter(n, lo, mid - 1)

(* floor of the square root *)
ISqrt(n) == SqrtIter(n, 0, 46340)

Dot3(a, b) == a[1] * b[1] + a[2] * b[2] + a[3] * b[3]

Dot4(a, b) == a[1] * b[1] + a[2] * b[2] + a[3] * b[3] + a[4] * b[4]

(* np.cross, of vectors in 1/QScale *)
Cross(a, b) ==
    << RoundDiv(a[2] * b[3] - a[3] * b[2], QScale),
       RoundDiv(a[3] * b[1] - a[1] * b[3], QScale),
       RoundDiv(a[1] * b[2] - a[2] * b[1], QScale) >>

(* linalg.norm(v, 2), in the units of v *)
Norm(v) == ISqrt(Dot3(v, v))

(* linalg.norm(v, 2) > t and linalg.norm(v, 2) < t, decided on the squares; *)
(* a component beyond t decides it alone, and the squares stay in range     *)
NormGt(v, t) ==
    IF t < 0 THEN TRUE
    ELSE IF \E i \in 1..3 : Abs(v[i]) > t THEN TRUE
    ELSE Dot3(v, v) > t * t

NormLt(v, t) ==
    IF t <= 0 THEN FALSE
    ELSE IF \E i \in 1..3 : Abs(v[i]) > t THEN FALSE
    ELSE Dot3(v, v) < t * t

---------------------------------------------------------------------------
(* Quadrotor3D.__init__ *)

mass == 1
DtInv == 100
g == <<0, 0, -98>>
ref_pos == <<0, 0, 2 * PosScale>>
ref_vel == <<0, 0, 0>>
pos_threshold == 3 * PosScale
vel_threshold == 10 * VelScale

(* steps_beyond_done = None; a count is 0 or more *)
None == -1

---------------------------------------------------------------------------
(* pyquaternion.Quaternion, as step() and control() use it.  A quaternion  *)
(* is <<w, x, y, z>>, the scalar first.                                    *)

(* Quaternion._normalise: q / norm unless q is a unit or the zero quaternion *)
Normalise(q) ==
    LET n2 == Dot4(q, q)
        n == ISqrt(n2)
    IN  IF n2 = QScale * QScale \/ n = 0 THEN q
        ELSE [i \in 1..4 |-> RoundDiv(q[i] * QScale, n)]

(* Quaternion.rotation_matrix.dot([0, 0, 1]): the third column of the      *)
(* rotation matrix of the normalised quaternion                            *)
BodyZ(q) ==
    LET n == Normalise(q)
    IN  << RoundDiv(2 * (n[2] * n[4] + n[1] * n[3]), QScale),
           RoundDiv(2 * (n[3] * n[4] - n[1] * n[2]), QScale),
           RoundDiv(n[1] * n[1] - n[2] * n[2] - n[3] * n[3] + n[4] * n[4], QScale) >>

(* the Hamilton product p * q, before the division by the scale *)
QMulRaw(p, q) ==
    << p[1] * q[1] - p[2] * q[2] - p[3] * q[3] - p[4] * q[4],
       p[1] * q[2] + p[2] * q[1] + p[3] * q[4] - p[4] * q[3],
       p[1] * q[3] - p[2] * q[4] + p[3] * q[1] + p[4] * q[2],
       p[1] * q[4] + p[2] * q[3] - p[3] * q[2] + p[4] * q[1] >>

(* Quaternion.conjugate *)
Conjugate(q) == <<q[1], -q[2], -q[3], -q[4]>>

(* att + att_quaternion.derivative(w).elements * dt, where derivative(w)   *)
(* is 0.5 * q * Quaternion(vector=w) of the quaternion that                *)
(* rotation_matrix has normalised in place; att itself is the array the    *)
(* quaternion was copied from                                              *)
AttNext(att, w) ==
    LET r == QMulRaw(Normalise(att), <<0, w[1], w[2], w[3]>>)
    IN  [i \in 1..4 |-> att[i] + RoundDiv(r[i], 2 * RateScale * DtInv)]

---------------------------------------------------------------------------
(* Quadrotor3D.step *)

(* variant: gravity entered with the opposite sign *)
AccGravityUp(att, thrust) ==
    LET bz == BodyZ(att)
    IN  [i \in 1..3 |-> RoundDiv(RoundDiv(thrust, mass) * bz[i], QScale) - g[i]]

(* acc = thrust/mass * R(att) [0,0,1] + g *)
Acc(att, thrust) ==
    LET bz == BodyZ(att)
    IN  [i \in 1..3 |-> RoundDiv(RoundDiv(thrust, mass) * bz[i], QScale) + g[i]]

(* pos + vel*dt + 0.5*acc*dt*dt *)
(* with vel*dt = VelCoef*vel/PosDen and 0.5*acc*dt*dt = acc/PosDen units   *)
(* of position                                                             *)
PosDen == (2 * AccScale * DtInv * DtInv) \div PosScale

VelCoef == (PosDen * PosScale) \div (VelScale * DtInv)

PosNext(pos, vel, acc) ==
    [i \in 1..3 |-> pos[i] + RoundDiv(VelCoef * vel[i] + acc[i], PosDen)]

(* variant: vel + acc, the time step left out *)
VelNextNoDt(vel, acc) ==
    [i \in 1..3 |-> vel[i] + RoundDiv(VelScale * acc[i], AccScale)]

(* vel + acc*dt *)
VelNext(vel, acc) ==
    [i \in 1..3 |-> vel[i] + RoundDiv(VelScale * acc[i], AccScale * DtInv)]

StateNext(s, action) ==
    LET acc == Acc(s.att, action[1])
    IN  [pos |-> PosNext(s.pos, s.vel, acc),
         att |-> AttNext(s.att, <<action[2], action[3], action[4]>>),
         vel |-> VelNext(s.vel, acc)]

Done(pos, vel) ==
    \/ NormLt(pos, -pos_threshold)
    \/ NormGt(pos, pos_threshold)
    \/ NormLt(vel, -vel_threshold)
    \/ NormGt(vel, vel_threshold)

(* variant: done computed from the pos and vel that step() has read *)
StepDoneStale(old, new) == Done(old.pos, old.vel)

(* done is computed from the pos and vel that step() has just written *)
StepDone(old, new) == Done(new.pos, new.vel)

(* variant: the distance to ref_pos instead of the origin *)
RunningRewardToRef(pos) == -Norm([i \in 1..3 |-> pos[i] - ref_pos[i]])

(* reward = -linalg.norm(pos, 2) *)
RunningReward(pos) == -Norm(pos)

RewardOne == PosScale

(* the reward and the steps_beyond_done that step() leaves *)
Reward(done, sbd, pos) ==
    IF ~done THEN RunningReward(pos)
    ELSE IF sbd = None THEN RewardOne
    ELSE 0

BeyondNext(done, sbd) ==
    IF ~done THEN sbd
    ELSE IF sbd = None THEN 0
    ELSE sbd + 1

NoAct == [kind |-> "none", action |-> <<0, 0, 0, 0>>]
NoMsg == [kind |-> "none", position |-> <<0, 0, 0>>, x |-> 0, y |-> 0, z |-> 0, w |-> 0]
NoRet == [kind |-> "none", reward |-> 0, done |-> FALSE, action |-> <<0, 0, 0, 0>>]

StepBody(action) ==
    LET new == StateNext(state, action)
        done == StepDone(state, new)
    IN  /\ prev' = state
        /\ state' = new
        /\ ret' = [kind |-> "step", reward |-> Reward(done, steps_beyond_done, new.pos),
                   done |-> done, action |-> action]
        /\ steps_beyond_done' = BeyondNext(done, steps_beyond_done)
        /\ first_done' = (done /\ ~terminated_seen)
        /\ terminated_seen' = (terminated_seen \/ done)

---------------------------------------------------------------------------
(* Quadrotor3D.reset: ten draws from uniform(-1, 1), each in [-1, 1) *)

Identity == <<QScale, 0, 0, 0>>

(* level, upside down (half a turn about x), level off the y axis, and two *)
(* draws whose quaternion is not a unit                                    *)
ResetStates ==
    { [pos |-> <<0, 0, 0>>, att |-> <<-QScale, 0, 0, 0>>, vel |-> <<0, 0, 0>>],
      [pos |-> <<0, 0, 0>>, att |-> <<0, -QScale, 0, 0>>, vel |-> <<0, 0, 0>>],
      [pos |-> <<0, -PosScale, 0>>, att |-> <<-QScale, 0, 0, 0>>, vel |-> <<0, 0, 0>>],
      [pos |-> <<500, -250, 900>>, att |-> <<-1000, -1000, 900, -1000>>,
       vel |-> <<-1000, 300, 0>>],
      [pos |-> <<-700, 400, 100>>, att |-> <<300, -200, 600, 100>>,
       vel |-> <<200, 0, -900>>] }

ResetBody(s) ==
    /\ state' = s
    /\ prev' = s
    /\ ret' = NoRet
    /\ first_done' = FALSE
    /\ terminated_seen' = FALSE
    /\ UNCHANGED steps_beyond_done

---------------------------------------------------------------------------
(* The environment driven through its interface: reset() and step(action)  *)
(* with any action.                                                        *)

Actions ==
    { <<0, 0, 0, 0>>, <<100, 1000, 0, 0>>, <<9650, 0, 0, 0>>, <<10148, 0, 0, 0>>,
      <<640000, 0, 0, 0>> }

Init ==
    /\ state \in ResetStates
    /\ prev = state
    /\ steps_beyond_done = None
    /\ ret = NoRet
    /\ act = NoAct
    /\ msg = NoMsg
    /\ terminated_seen = FALSE
    /\ first_done = FALSE
    /\ pc = "api"
    /\ calls = 0

Step ==
    /\ calls < MaxCalls
    /\ \E a \in Actions : StepBody(a)
    /\ calls' = calls + 1
    /\ UNCHANGED <<act, msg, pc>>

Reset ==
    /\ calls < MaxCalls
    /\ \E s \in ResetStates : ResetBody(s)
    /\ calls' = calls + 1
    /\ UNCHANGED <<act, msg, pc>>

Next == Step \/ Reset

Spec == Init /\ [][Next]_vars

---------------------------------------------------------------------------
(* Quadrotor3D.control *)

Kp == <<-5, -5, -5>>
Kv == <<-4, -4, -4>>
(* tau = 0.3, in 1/TauScale *)
TauScale == 10
tau == 3

(* a vector of NaN *)
NaNVec == <<>>

IsNaN(v) == v = NaNVec

(* a / b of floats, b > 0: rounded, and zero only if a is zero *)
DivNZ(a, b) ==
    LET r == RoundDiv(a, b)
    IN  IF r = 0 THEN Sign(a) ELSE r

(* v / linalg.norm(v), in 1/QScale: 0/0 is NaN in every component *)
Unit(v) ==
    IF IsNaN(v) THEN NaNVec
    ELSE IF Dot3(v, v) = 0 THEN NaNVec
    ELSE LET n == ISqrt(100 * Dot3(v, v))
         IN  [i \in 1..3 |-> DivNZ(10 * QScale * v[i], n)]

(* np.cross: NaN from a NaN operand *)
CrossNaN(a, b) == IF IsNaN(a) \/ IsNaN(b) THEN NaNVec ELSE Cross(a, b)

yc == <<0, QScale, 0>>

(* desired_acc = reference_acc + Kp*error_pos + Kv*error_vel - g *)
DesiredAcc(s) ==
    [i \in 1..3 |->
        0 + RoundDiv(Kp[i] * (s.pos[i] - ref_pos[i]) * AccScale, PosScale)
          + RoundDiv(Kv[i] * (s.vel[i] - ref_vel[i]) * AccScale, VelScale)
          - g[i]]

(* the columns xb_des, yb_des, zb_des of rotmat in acc2quat *)
DesiredAxes(desired_acc) ==
    LET zb0 == Unit(desired_acc)
        xb == Unit(CrossNaN(yc, zb0))
        yb == CrossNaN(zb0, xb)
        zb == Unit(zb0)
    IN  [xb |-> xb, yb |-> yb, zb |-> zb]

(* pyquaternion's trace_method on the transpose m of the matrix of columns *)
(* xb, yb, zb: m[i][j] is component i of column j                          *)
TraceMethod(xb, yb, zb) ==
    LET m00 == xb[1]  m11 == yb[2]  m22 == zb[3]
        m01 == xb[2]  m02 == xb[3]
        m10 == yb[1]  m12 == yb[3]
        m20 == zb[1]  m21 == zb[2]
        t == IF m22 < 0
             THEN IF m00 > m11 THEN QScale + m00 - m11 - m22
                  ELSE QScale - m00 + m11 - m22
             ELSE IF m00 < -m11 THEN QScale - m00 - m11 + m22
                  ELSE QScale + m00 + m11 + m22
        q == IF m22 < 0
             THEN IF m00 > m11 THEN <<m12 - m21, t, m01 + m10, m20 + m02>>
                  ELSE <<m20 - m02, m01 + m10, t, m12 + m21>>
             ELSE IF m00 < -m11 THEN <<m01 - m10, m20 + m02, m12 + m21, t>>
                  ELSE <<t, m12 - m21, m20 - m02, m01 - m10>>
    IN  [i \in 1..4 |-> RoundDiv(q[i] * QScale, 2 * ISqrt(t * QScale))]

(* variant: a conversion that does not validate the matrix *)
FromMatrixUnchecked(ax) ==
    IF IsNaN(ax.xb) \/ IsNaN(ax.yb) \/ IsNaN(ax.zb)
    THEN [kind |-> "nan", q |-> <<0, 0, 0, 0>>]
    ELSE [kind |-> "quat", q |-> TraceMethod(ax.xb, ax.yb, ax.zb)]

(* Quaternion(matrix=rotmat): pyquaternion raises ValueError ("Matrix must *)
(* be orthogonal") unless np.allclose(R R^T, I), which no matrix with a    *)
(* NaN passes; the matrix acc2quat builds from numbers passes it           *)
FromMatrix(ax) ==
    IF IsNaN(ax.xb) \/ IsNaN(ax.yb) \/ IsNaN(ax.zb)
    THEN [kind |-> "ValueError", q |-> <<0, 0, 0, 0>>]
    ELSE [kind |-> "quat", q |-> TraceMethod(ax.xb, ax.yb, ax.zb)]

(* qe = (current_quat.conjugate * desired_quat).elements; current_quat is  *)
(* Quaternion(att), not yet normalised                                     *)
ErrorAtt(att, desired_quat) ==
    LET r == QMulRaw(Conjugate(att), desired_quat)
    IN  [i \in 1..4 |-> RoundDiv(r[i], QScale)]

(* variant: a sign that is +1 at zero, as copysign(1, qe[0]) would be *)
RateCmdSignOfZero(qe) ==
    [i \in 1..3 |->
        RoundDiv(2 * TauScale * (IF qe[1] < 0 THEN -1 ELSE 1) * qe[i + 1] * RateScale,
                 tau * QScale)]

(* variant: no sign at all *)
RateCmdNoSign(qe) ==
    [i \in 1..3 |-> RoundDiv(2 * TauScale * qe[i + 1] * RateScale, tau * QScale)]

(* w = (2/tau) * np.sign(qe[0]) * qe[1:4] *)
RateCmd(qe) ==
    [i \in 1..3 |->
        RoundDiv(2 * TauScale * Sign(qe[1]) * qe[i + 1] * RateScale, tau * QScale)]

(* thrust = desired_acc . R(current_quat) [0,0,1] *)
ThrustCmd(desired_acc, att) == RoundDiv(Dot3(desired_acc, BodyZ(att)), QScale)

(* what control() does: it returns an action, or Quaternion(matrix=...)    *)
(* raises; kind "nan" is the action computed from a quaternion of NaN      *)
ControlOf(s) ==
    LET desired_acc == DesiredAcc(s)
        desired_att == FromMatrix(DesiredAxes(desired_acc))
    IN  IF desired_att.kind = "ValueError"
        THEN [kind |-> "ValueError", action |-> <<0, 0, 0, 0>>]
        ELSE IF desired_att.kind = "nan"
        THEN [kind |-> "nan", action |-> <<0, 0, 0, 0>>]
        ELSE LET w == RateCmd(ErrorAtt(s.att, desired_att.q))
             IN  [kind |-> "action",
                  action |-> <<ThrustCmd(desired_acc, s.att), w[1], w[2], w[3]>>]

---------------------------------------------------------------------------
(* Quadrotor3D.ros_render: the PoseStamped it publishes *)

RosMsg(s) ==
    [kind |-> "pose", position |-> s.pos,
     x |-> s.att[1], y |-> s.att[2], z |-> s.att[3], w |-> s.att[4]]

---------------------------------------------------------------------------
(* Environments.test_env: control(), step(), ros_render() and, after       *)
(* done, reset(), in a loop.  An action of an external policy may stand in *)
(* for the action of control().                                            *)

PolicyActions == { <<5017, 0, 0, 0>> }

InitLoop ==
    /\ state \in ResetStates
    /\ prev = state
    /\ steps_beyond_done = None
    /\ ret = NoRet
    /\ act = NoAct
    /\ msg = NoMsg
    /\ terminated_seen = FALSE
    /\ first_done = FALSE
    /\ pc = "control"
    /\ calls = 0

LoopControl ==
    /\ pc = "control"
    /\ calls < MaxIter
    /\ act' = ControlOf(state)
    /\ pc' = IF act'.kind = "ValueError" THEN "raised" ELSE "step"
    /\ UNCHANGED <<state, steps_beyond_done, ret, msg, prev, terminated_seen,
                   first_done, calls>>

LoopPolicy ==
    /\ pc = "control"
    /\ calls < MaxIter
    /\ \E a \in PolicyActions : act' = [kind |-> "policy", action |-> a]
    /\ pc' = "step"
    /\ UNCHANGED <<state, steps_beyond_done, ret, msg, prev, terminated_seen,
                   first_done, calls>>

LoopStep ==
    /\ pc = "step"
    /\ act.kind \in {"action", "policy"}
    /\ StepBody(act.action)
    /\ pc' = "render"
    /\ UNCHANGED <<act, msg, calls>>

LoopRender ==
    /\ pc = "render"
    /\ msg' = RosMsg(state)
    /\ pc' = "check"
    /\ UNCHANGED <<state, steps_beyond_done, ret, act, prev, terminated_seen,
                   first_done, calls>>

LoopReset ==
    /\ pc = "check"
    /\ ret.done
    /\ \E s \in ResetStates : ResetBody(s)
    /\ pc' = "control"
    /\ calls' = calls + 1
    /\ UNCHANGED <<act, msg>>

LoopNext ==
    /\ pc = "check"
    /\ ~ret.done
    /\ pc' = "control"
    /\ calls' = calls + 1
    /\ UNCHANGED <<state, steps_beyond_done, ret, act, msg, prev, terminated_seen,
                   first_done>>

NextLoop ==
    LoopControl \/ LoopPolicy \/ LoopStep \/ LoopRender \/ LoopReset \/ LoopNext

SpecLoop == InitLoop /\ [][NextLoop]_vars

---------------------------------------------------------------------------
(* The hover scenario: at ref_pos, level and at rest, the action of        *)
(* control() is applied in HoverSteps consecutive step() calls.            *)

HoverState == [pos |-> ref_pos, att |-> Identity, vel |-> <<0, 0, 0>>]

InitHover ==
    /\ state = HoverState
    /\ prev = state
    /\ steps_beyond_done = None
    /\ ret = NoRet
    /\ act = NoAct
    /\ msg = NoMsg
    /\ terminated_seen = FALSE
    /\ first_done = FALSE
    /\ pc = "hover"
    /\ calls = 0

HoverControl ==
    /\ act.kind = "none"
    /\ act' = ControlOf(state)
    /\ UNCHANGED <<state, steps_beyond_done, ret, msg, prev, terminated_seen,
                   first_done, pc, calls>>

HoverStep ==
    /\ act.kind = "action"
    /\ calls < HoverSteps
    /\ StepBody(act.action)
    /\ calls' = calls + 1
    /\ UNCHANGED <<act, msg, pc>>

NextHover == HoverControl \/ HoverStep

SpecHover == InitHover /\ [][NextHover]_vars

---------------------------------------------------------------------------
(* Properties of reset() and step() *)

(* a step() of this episode had returned done = True before the last step() *)
AlreadyTerminated == ret.kind = "step" /\ terminated_seen /\ ~first_done

(* the norm of v is at most t, strictly less than t *)
Within(v, t) == (\A i \in 1..3 : Abs(v[i]) <= t) /\ Dot3(v, v) <= t * t

StrictlyWithin(v, t) == (\A i \in 1..3 : Abs(v[i]) < t) /\ Dot3(v, v) < t * t

(* all four components of the action are in the action space [0, 10] *)
BoundedAction(a) ==
    /\ a[1] >= 0 /\ a[1] <= 10 * AccScale
    /\ \A i \in 2..4 : a[i] >= 0 /\ a[i] <= 10 * RateScale

(* C1: the first step() of an episode that returns done = True returns     *)
(* reward 1.0, in every episode of the environment object.                 *)
C1_FirstDoneRewardOne == first_done => ret.reward = RewardOne

(* C2: a step() after an earlier step() of the episode has returned        *)
(* done = True returns reward 0.0, whatever the action and the new state.  *)
C2_BeyondDoneRewardZero == AlreadyTerminated => ret.reward = 0

(* C3: step() returns done = True exactly when the norm of the position it *)
(* has just written exceeds pos_threshold or the norm of the velocity it   *)
(* has just written exceeds vel_threshold.                                 *)
C3_DoneIffOutside ==
    ret.kind = "step" =>
        (ret.done <=> ~(Within(state.pos, pos_threshold) /\ Within(state.vel, vel_threshold)))

(* a step() from a state inside both thresholds to one outside returned done *)
C3_Witness ==
    /\ ret.kind = "step" /\ ret.done
    /\ Within(prev.pos, pos_threshold) /\ Within(prev.vel, vel_threshold)
    /\ ~Within(state.pos, pos_threshold)

(* C4, as claimed: from a state strictly inside both thresholds, a step()  *)
(* with an action in [0, 10]^4 returns done = False.                       *)
C4_InsideStaysInside ==
    ( /\ ret.kind = "step"
      /\ StrictlyWithin(prev.pos, pos_threshold)
      /\ StrictlyWithin(prev.vel, vel_threshold)
      /\ BoundedAction(ret.action) ) => ~ret.done

(* C4, amended: from a state whose position norm is at most                *)
(* pos_threshold - 0.15 and whose velocity norm is at most                 *)
(* vel_threshold - 0.25, a step() with an action in [0, 10]^4 returns      *)
(* done = False.                                                           *)
HoldPos == pos_threshold - (15 * PosScale) \div 100

HoldVel == vel_threshold - (25 * VelScale) \div 100

C4_MarginStaysInside ==
    ( /\ ret.kind = "step"
      /\ Within(prev.pos, HoldPos)
      /\ Within(prev.vel, HoldVel)
      /\ BoundedAction(ret.action) ) => ~ret.done

(* such a step() taken at more than 9.7 m/s, with the largest thrust *)
C4_Witness ==
    /\ ret.kind = "step" /\ ~ret.done
    /\ Within(prev.pos, HoldPos) /\ Within(prev.vel, HoldVel)
    /\ ~Within(prev.vel, HoldVel - VelScale \div 20)
    /\ BoundedAction(ret.action) /\ ret.action[1] = 10 * AccScale

(* C5: a step() that returns done = False returns minus the norm of the    *)
(* position it has just written, measured from the origin: a reward that   *)
(* is never positive and is the same whatever ref_pos and ref_vel are.     *)
C5_RunningRewardIsMinusNorm ==
    (ret.kind = "step" /\ ~ret.done) =>
        /\ ret.reward <= 0
        /\ ret.reward * ret.reward <= Dot3(state.pos, state.pos)
        /\ Dot3(state.pos, state.pos) < (1 - ret.reward) * (1 - ret.reward)

(* such a step(), to a position whose distance to ref_pos is another *)
C5_Witness ==
    /\ ret.kind = "step" /\ ~ret.done /\ ret.reward < 0
    /\ Norm([i \in 1..3 |-> state.pos[i] - ref_pos[i]]) # -ret.reward

(* C6: the orientation quaternion has norm 1, within a tenth, in every     *)
(* state: after reset() and after every step().                            *)
C6_UnitQuaternion ==
    LET n2 == Dot4(state.att, state.att)
    IN  /\ 100 * n2 >= 81 * QScale * QScale
        /\ 100 * n2 <= 121 * QScale * QScale

---------------------------------------------------------------------------
(* Properties of control() and ros_render() *)

(* control() has just been called in the current state *)
ControlReturned ==
    pc \in {"step", "raised"} /\ act.kind \in {"action", "ValueError", "nan"}

(* the desired acceleration is zero, or parallel to the auxiliary axis yc *)
Degenerate(d) == d[1] = 0 /\ d[3] = 0

NegAtt(s) == [s EXCEPT !.att = [i \in 1..4 |-> -s.att[i]]]

(* C7: in the hover scenario control() returns thrust 9.8 and angular      *)
(* velocity (0, 0, 0), and after each of the step() calls with that action *)
(* the position is (0, 0, 2) and done is False.                            *)
C7_HoverHolds ==
    /\ act.kind # "none" =>
            act = [kind |-> "action", action |-> <<98, 0, 0, 0>>]
    /\ ret.kind = "step" => (state.pos = ref_pos /\ ~ret.done)

(* the last of the step() calls has returned *)
C7_Witness ==
    /\ calls = HoverSteps /\ calls >= 100
    /\ ret.kind = "step" /\ ret.action = <<98, 0, 0, 0>>
    /\ state.pos = <<0, 0, 2 * PosScale>>

(* C8: called with a desired acceleration that is zero or parallel to      *)
(* (0, 1, 0), control() raises ValueError; it never returns an action of   *)
(* NaN.                                                                    *)
C8_DegenerateRaises ==
    ControlReturned =>
        /\ act.kind # "nan"
        /\ Degenerate(DesiredAcc(state)) => act.kind = "ValueError"

(* control() has raised on a zero desired acceleration *)
C8_Witness ==
    /\ ControlReturned /\ pc = "raised"
    /\ DesiredAcc(state) = <<0, 0, 0>>

(* control() has raised on a desired acceleration along (0, 1, 0) *)
C8_WitnessParallel ==
    /\ ControlReturned /\ pc = "raised"
    /\ Degenerate(DesiredAcc(state)) /\ DesiredAcc(state)[2] # 0

(* C9: what control() returns in a state is what it returns in the state   *)
(* of the same position and velocity and the negated orientation.          *)
C9_DoubleCover == ControlReturned => ControlOf(NegAtt(state)) = act

(* control() has returned an action where the scalar part of the error     *)
(* quaternion is zero and its vector part is not                           *)
C9_Witness ==
    /\ ControlReturned /\ act.kind = "action"
    /\ LET qe == ErrorAtt(state.att, FromMatrix(DesiredAxes(DesiredAcc(state))).q)
       IN  qe[1] = 0 /\ <<qe[2], qe[3], qe[4]>> # <<0, 0, 0>>

(* control() has returned a non-zero angular velocity *)
C9_WitnessTurning ==
    /\ ControlReturned /\ act.kind = "action"
    /\ <<act.action[2], act.action[3], act.action[4]>> # <<0, 0, 0>>

(* C10: ros_render() publishes the quaternion that step() and control()    *)
(* read: orientation.w is state[3], the scalar part, and orientation.x,    *)
(* .y, .z are state[4], state[5], state[6].                                *)
C10_SameQuaternionOrder ==
    pc = "check" =>
        /\ msg.w = state.att[1]
        /\ msg.x = state.att[2]
        /\ msg.y = state.att[3]
        /\ msg.z = state.att[4]

===========================================================================
